---- MODULE Spec2Model ----
(***************************************************************************)
(* Second Brain: note ingestion (classification, embedding, vector index)  *)
(* and retrieval (keyword and semantic search) over the relational note    *)
(* store and the ChromaDB collection.                                      *)
(*                                                                         *)
(* Strings are sequences of one-character strings, so that slicing,        *)
(* lower-casing and substring search are computed as the code computes     *)
(* them.  Python's Optional[T] is a sequence of length at most one:        *)
(* None == <<>> and a present value x is <<x>>.                            *)
(***************************************************************************)
EXTENDS Integers, Sequences, FiniteSets, TLC

(* ------------------------------ bounds -------------------------------- *)

\* Number of notes ever created (uuid4 ids are never reused).
MaxNotes == 2

\* Largest page number a search request asks for.
MaxPage == 2

\* Largest page size a search request asks for.
MaxPageSize == 2

\* Number of injected failures (an exception of the speech API, the embedding
\* model, the collection or a commit) in one behaviour.
MaxFaults == 1

(* ------------------------- program constants -------------------------- *)

\* SearchRequest.page: Field(1, ge=1)
PageMin == 1

\* SearchRequest.page_size: Field(10, ge=1, le=100)
PageSizeMin == 1

PageSizeMax == 100

(* ----------------------------- Optional ------------------------------- *)

None == <<>>

Some(x) == <<x>>

Val(o) == o[1]

\* dict.get(key, default) on a key that is absent (None) or present.
Get(o, default) == IF o = None THEN default ELSE Val(o)

Min(a, b) == IF a <= b THEN a ELSE b

(* ------------------------------ strings ------------------------------- *)

UpperChars == <<"A", "B", "C", "D", "E", "F", "G", "H", "I", "J", "K", "L", "M", "N", "O", "P", "Q", "R", "S", "T", "U", "V", "W", "X", "Y", "Z">>

LowerChars == <<"a", "b", "c", "d", "e", "f", "g", "h", "i", "j", "k", "l", "m", "n", "o", "p", "q", "r", "s", "t", "u", "v", "w", "x", "y", "z">>


LowerChar(c) ==
  IF \E i \in 1..Len(UpperChars) : UpperChars[i] = c
  THEN LowerChars[CHOOSE i \in 1..Len(UpperChars) : UpperChars[i] = c]
  ELSE c

\* str.lower()
Lower(s) == [i \in 1..Len(s) |-> LowerChar(s[i])]

\* s[:n]
Take(s, n) == SubSeq(s, 1, Min(Len(s), n))

\* python "k in s": k occurs in s as a contiguous run of characters
Contains(s, k) ==
  \E i \in 0..(Len(s) - Len(k)) : \A j \in 1..Len(k) : s[i + j] = k[j]

\* any(k in s for k in ks)
AnyIn(s, ks) == \E n \in 1..Len(ks) : Contains(s, ks[n])


(* ------------------------------ inputs -------------------------------- *)

\* ids of users; the webhook names a Telegram user "telegram_<id>"
Users == {"u1", "telegram_7"}

TelegramUsers == {"telegram_7"}

TextTrip == <<"T", "r", "i", "p", " ", "t", "o", " ", "R", "o", "m", "e">>

TextBuy == <<"m", "u", "s", "t", " ", "b", "u", "y", " ", "m", "i", "l", "k">>

\* canonical texts of notes (already cleaned by TextService._clean_text and
\* accepted by TextService.validate_text: at least 3 characters)
Texts == {TextTrip, TextBuy}

\* "Team meeting tomorrow at 10 AM to discuss Q4 goals"
TextMeeting ==
  <<"T", "e", "a", "m", " ", "m", "e", "e", "t", "i", "n", "g", " ", "t", "o", "m", "o", "r", "r", "o", "w", " ", "a", "t", " ", "1", "0", " ", "A", "M", " ", "t", "o", " ", "d", "i", "s", "c", "u", "s", "s", " ", "Q", "4", " ", "g", "o", "a", "l", "s">>

\* "Buy a gym bag for the trip": keywords of Travel, Health and Shopping
TextGymTrip ==
  <<"B", "u", "y", " ", "a", " ", "g", "y", "m", " ", "b", "a", "g", " ", "f", "o", "r", " ", "t", "h", "e", " ", "t", "r", "i", "p">>

QueryTrip == <<"T", "R", "I", "P">>

LlmTitle == <<"N", "o", "t", "e", "s">>

LlmSummary == <<"a", " ", "t", "r", "i", "p">>

\* str.lower() of the strings of the model, computed once
LowerOf ==
  [ s \in Texts \cup {QueryTrip, LlmTitle, LlmSummary, <<>>}
      |-> Lower(s) ]

LowerCached(s) == IF s \in DOMAIN LowerOf THEN LowerOf[s] ELSE Lower(s)

\* column.ilike("%" + pattern + "%") on a nullable column
ILike(col, pattern) ==
  col # None /\ Contains(LowerCached(Val(col)), LowerCached(pattern))

(* --------------------------- classification --------------------------- *)

category_keywords ==
  << [cat |-> "Work", keywords |-> <<<<"m", "e", "e", "t", "i", "n", "g">>,
         <<"p", "r", "o", "j", "e", "c", "t">>,
         <<"d", "e", "a", "d", "l", "i", "n", "e">>,
         <<"c", "l", "i", "e", "n", "t">>,
         <<"e", "m", "a", "i", "l">>>>],
     [cat |-> "Personal", keywords |-> <<<<"f", "a", "m", "i", "l", "y">>,
         <<"f", "r", "i", "e", "n", "d">>,
         <<"h", "o", "m", "e">>,
         <<"b", "i", "r", "t", "h", "d", "a", "y">>>>],
     [cat |-> "Travel", keywords |-> <<<<"f", "l", "i", "g", "h", "t">>,
         <<"t", "r", "i", "p">>,
         <<"a", "i", "r", "p", "o", "r", "t">>,
         <<"h", "o", "t", "e", "l">>>>],
     [cat |-> "Ideas", keywords |-> <<<<"i", "d", "e", "a">>,
         <<"b", "r", "a", "i", "n", "s", "t", "o", "r", "m">>,
         <<"c", "o", "n", "c", "e", "p", "t">>>>],
     [cat |-> "Projects", keywords |-> <<<<"b", "u", "i", "l", "d">>,
         <<"d", "e", "v", "e", "l", "o", "p">>,
         <<"l", "a", "u", "n", "c", "h">>>>],
     [cat |-> "Health", keywords |-> <<<<"d", "o", "c", "t", "o", "r">>,
         <<"g", "y", "m">>,
         <<"e", "x", "e", "r", "c", "i", "s", "e">>,
         <<"m", "e", "d", "i", "c", "i", "n", "e">>>>],
     [cat |-> "Learning", keywords |-> <<<<"l", "e", "a", "r", "n">>,
         <<"s", "t", "u", "d", "y">>,
         <<"c", "o", "u", "r", "s", "e">>,
         <<"t", "u", "t", "o", "r", "i", "a", "l">>>>],
     [cat |-> "Finance", keywords |-> <<<<"b", "u", "d", "g", "e", "t">>,
         <<"e", "x", "p", "e", "n", "s", "e">>,
         <<"b", "a", "n", "k">>,
         <<"i", "n", "v", "o", "i", "c", "e">>>>],
     [cat |-> "Shopping", keywords |-> <<<<"b", "u", "y">>,
         <<"o", "r", "d", "e", "r">>,
         <<"g", "r", "o", "c", "e", "r", "i", "e", "s">>>>] >>

urgency_words == <<<<"u", "r", "g", "e", "n", "t">>, <<"a", "s", "a", "p">>, <<"i", "m", "m", "e", "d", "i", "a", "t", "e", "l", "y">>, <<"c", "r", "i", "t", "i", "c", "a", "l">>>>

low_words == <<<<"m", "a", "y", "b", "e">>, <<"s", "o", "m", "e", "d", "a", "y">>>>

action_keywords == <<<<"n", "e", "e", "d", " ", "t", "o">>, <<"h", "a", "v", "e", " ", "t", "o">>, <<"m", "u", "s", "t">>, <<"s", "h", "o", "u", "l", "d">>>>

EntityBuckets == {"people", "places", "dates", "companies"}

\* {"people": [], "places": [], "dates": [], "companies": []}
EmptyEntities == [b \in EntityBuckets |-> <<>>]

\* "for cat, keywords in category_keywords.items(): if any(...): primary_tag
\* = cat; break", from entry n of the table on
RECURSIVE ScanCategories(_, _)
ScanCategories(text_lower, n) ==
  IF n > Len(category_keywords) THEN "Other"
  ELSE IF AnyIn(text_lower, category_keywords[n].keywords)
       THEN category_keywords[n].cat
       ELSE ScanCategories(text_lower, n + 1)

\* the loop without its break: the last category that matches stays
FirstCategory_no_break(text_lower) ==
  IF \E n \in 1..Len(category_keywords) :
       AnyIn(text_lower, category_keywords[n].keywords)
  THEN category_keywords[
         CHOOSE n \in 1..Len(category_keywords) :
           /\ AnyIn(text_lower, category_keywords[n].keywords)
           /\ \A m \in (n + 1)..Len(category_keywords) :
                ~AnyIn(text_lower, category_keywords[m].keywords)].cat
  ELSE "Other"

\* primary_tag = "Other", then the loop over the table
FirstCategory(text_lower) == ScanCategories(text_lower, 1)

FallbackPriority(text_lower) ==
  IF AnyIn(text_lower, urgency_words) THEN "high"
  ELSE IF AnyIn(text_lower, low_words) THEN "low"
  ELSE "medium"

\* the fields of NoteClassification
ClassificationFields ==
  { "title", "summary", "primary_tag", "secondary_tags", "key_entities",
    "actionable_items", "topics", "sentiment", "priority" }

\* a fallback whose key_entities is the empty dict (the default that
\* classify_note uses for a response without the key)
_create_fallback_classification_no_buckets(text) ==
  LET text_lower == Lower(text)
      priority == FallbackPriority(text_lower)
  IN [ title |-> Take(text, 60),
       summary |-> Take(text, 150),
       primary_tag |-> FirstCategory(text_lower),
       secondary_tags |-> <<>>,
       key_entities |-> <<>>,
       actionable_items |->
         IF AnyIn(text_lower, action_keywords)
         THEN << [task |-> Take(text, 100), deadline |-> None,
                  priority |-> priority] >>
         ELSE <<>>,
       topics |-> <<>>,
       sentiment |-> "neutral",
       priority |-> priority ]

\* ClassificationService._create_fallback_classification
_create_fallback_classification(text) ==
  LET text_lower == Lower(text)
      priority == FallbackPriority(text_lower)
  IN [ title |-> Take(text, 60),
       summary |-> Take(text, 150),
       primary_tag |-> FirstCategory(text_lower),
       secondary_tags |-> <<>>,
       key_entities |-> EmptyEntities,
       actionable_items |->
         IF AnyIn(text_lower, action_keywords)
         THEN << [task |-> Take(text, 100), deadline |-> None,
                  priority |-> priority] >>
         ELSE <<>>,
       topics |-> <<>>,
       sentiment |-> "neutral",
       priority |-> priority ]

\* The JSON object of a Gemini response that parsed: each key is absent (None)
\* or present with its value.
LlmFull ==
  [ title |-> Some(LlmTitle), summary |-> Some(LlmSummary),
    primary_tag |-> Some("Work"), secondary_tags |-> Some(<<"plan">>),
    key_entities |-> Some(EmptyEntities), actionable_items |-> Some(<<>>),
    topics |-> Some(<<>>), sentiment |-> Some("positive"),
    priority |-> Some("low") ]

\* the response "{}"
LlmEmpty ==
  [ title |-> None, summary |-> None, primary_tag |-> None,
    secondary_tags |-> None, key_entities |-> None,
    actionable_items |-> None, topics |-> None, sentiment |-> None,
    priority |-> None ]

\* a response whose key_entities has one of the four buckets:
\* {..., "key_entities": {"people": ["Bob"]}, ...}
LlmPartial ==
  [ LlmFull EXCEPT
      !.key_entities = Some([b \in {"people"} |-> << <<"B", "o", "b">> >>]) ]

\* What the call to Gemini can do: the model was never initialised, the call
\* raises, the response is no JSON, the JSON does not validate as a
\* NoteClassification, or the JSON object data is returned.
LlmOutcomes ==
  { [kind |-> k, data |-> LlmEmpty] :
      k \in {"not_initialised", "raises", "unparsable", "invalid"} }
  \cup { [kind |-> "ok", data |-> d] : d \in {LlmFull} }

\* ... with every shape of a parsed response: all keys, no key, and a
\* key_entities with one bucket
LlmJsonOutcomes ==
  LlmOutcomes \cup { [kind |-> "ok", data |-> d] : d \in {LlmEmpty, LlmPartial} }

\* the NoteClassification built from the parsed response
ClassificationFromData(d, text) ==
  [ title |-> Get(d.title, Take(text, 50)),
    summary |-> Get(d.summary, Take(text, 200)),
    primary_tag |-> Get(d.primary_tag, "Other"),
    secondary_tags |-> Get(d.secondary_tags, <<>>),
    key_entities |-> Get(d.key_entities, <<>>),
    actionable_items |-> Get(d.actionable_items, <<>>),
    topics |-> Get(d.topics, <<>>),
    sentiment |-> Get(d.sentiment, "neutral"),
    priority |-> Get(d.priority, "medium") ]

\* the fallback classification of the texts of the model, computed once
FallbackOf ==
  [ t \in Texts \cup {TextMeeting, TextGymTrip}
      |-> _create_fallback_classification(t) ]

Fallback(text) ==
  IF text \in DOMAIN FallbackOf THEN FallbackOf[text]
  ELSE _create_fallback_classification(text)

\* classify_note without its "except Exception": an exception of the Gemini
\* call leaves the function
classify_note_reraise(text, llm) ==
  IF llm.kind = "ok"
  THEN [raised |-> FALSE, fallback |-> FALSE,
        value |-> ClassificationFromData(llm.data, text)]
  ELSE [raised |-> llm.kind = "raises", fallback |-> TRUE,
        value |-> Fallback(text)]

\* ClassificationService.classify_note: every failure of the Gemini call is
\* answered with the fallback classification; nothing is raised.
classify_note(text, llm) ==
  IF llm.kind = "ok"
  THEN [raised |-> FALSE, fallback |-> FALSE,
        value |-> ClassificationFromData(llm.data, text)]
  ELSE [raised |-> FALSE, fallback |-> TRUE,
        value |-> Fallback(text)]

(* ------------------------------- state -------------------------------- *)

VARIABLES
  db,        \* committed rows of table "notes": note id -> row
  index,     \* ChromaDB collection "voice_notes": note id -> entry
  nextId,    \* number of notes created so far, plus one; also the clock
  pc,        \* requests in flight: note id -> handler that created the row
  trace,     \* per note, what each step of its creation pipeline did
  deleted,   \* ids whose row delete_note has removed
  faults,    \* number of failures injected so far
  resp,      \* the response of POST /query/search that is being returned
  deletions, \* per note, what the last delete_note request on it did
  call       \* a service method called on its own: its arguments and result

vars ==
  <<db, index, nextId, pc, trace, deleted, faults, resp, deletions, call>>

\* the map f without key k / with key k set to v
Without(f, k) == [i \in (DOMAIN f) \ {k} |-> f[i]]

With(f, k, v) == [i \in (DOMAIN f) \cup {k} |-> IF i = k THEN v ELSE f[i]]

\* Note(...) as the handlers construct it; the other columns are NULL
NewNote(user_id, input_type, source, original_text, now) ==
  [ user_id |-> user_id, input_type |-> input_type, source |-> source,
    original_text |-> original_text, transcription |-> None,
    title |-> None, summary |-> None, primary_tag |-> None,
    secondary_tags |-> None, key_entities |-> None,
    actionable_items |-> None, topics |-> None, sentiment |-> None,
    priority |-> None, embedding_id |-> None,
    processing_status |-> "processing", error_message |-> None,
    created_at |-> now ]

\* note.title = classification.title ... note.processing_status = "completed"
Classified(note, c) ==
  [ note EXCEPT
      !.title = Some(c.title), !.summary = Some(c.summary),
      !.primary_tag = Some(c.primary_tag),
      !.secondary_tags = Some(c.secondary_tags),
      !.key_entities = Some(c.key_entities),
      !.actionable_items = Some(c.actionable_items),
      !.topics = Some(c.topics), !.sentiment = Some(c.sentiment),
      !.priority = Some(c.priority), !.processing_status = "completed" ]

\* except Exception as e: note.processing_status = "failed"; error_message
Failed(note, step) ==
  [ note EXCEPT !.processing_status = "failed", !.error_message = Some(step) ]

(* ---------------------------- vector index ---------------------------- *)

CharSet(s) == {s[i] : i \in 1..Len(s)}

\* Stand-in for the cosine distance between the sentence-transformers
\* embeddings of two texts: a fixed function of the two texts, 0 for equal
\* texts.
Distance(a, b) ==
  Cardinality((CharSet(Lower(a)) \ CharSet(Lower(b)))
              \cup (CharSet(Lower(b)) \ CharSet(Lower(a))))

\* all orderings of the finite set S
Orderings(S) ==
  { s \in [1..Cardinality(S) -> S] :
      \A i, j \in 1..Cardinality(S) : i # j => s[i] # s[j] }

\* a query that does not look at the user_id of its `where`
CollectionQuery_any_owner(idx, query_text, n_results, where) ==
  LET cand == { id \in DOMAIN idx :
                  where.primary_tag # None =>
                    idx[id].metadata.primary_tag = Val(where.primary_tag) }
      d(id) == Distance(query_text, idx[id].document)
      ranked == { s \in Orderings(cand) :
                    \A i, j \in 1..Len(s) : i < j => d(s[i]) <= d(s[j]) }
  IN { Take(s, n_results) : s \in ranked }

\* collection.query(query_embeddings, n_results, where): the n_results
\* nearest entries whose metadata equal `where` on every key it has, nearest
\* first; entries at equal distance come in either order.
CollectionQuery(idx, query_text, n_results, where) ==
  LET cand == { id \in DOMAIN idx :
                  /\ idx[id].metadata.user_id = where.user_id
                  /\ where.primary_tag # None =>
                       idx[id].metadata.primary_tag = Val(where.primary_tag) }
      d(id) == Distance(query_text, idx[id].document)
      ranked == { s \in Orderings(cand) :
                    \A i, j \in 1..Len(s) : i < j => d(s[i]) <= d(s[j]) }
  IN { Take(s, n_results) : s \in ranked }

\* What the embedding model and the collection can do during one call.
SearchEnvs == {"ok", "embedding_raises", "query_raises"}

\* EmbeddingService.search_similar_notes: the possible lists of note ids;
\* any exception is answered with the empty list.
search_similar_notes(idx, query_text, n_results, filter_metadata, env) ==
  IF env = "ok"
  THEN CollectionQuery(idx, query_text, n_results, filter_metadata)
  ELSE { <<>> }

(* ------------------------------- search ------------------------------- *)

\* python truthiness of an Optional[str] request field
TruthyStr(o) == o # None /\ Val(o) # ""

\* ... of the query text, a sequence of characters
TruthyText(o) == o # None /\ Val(o) # <<>>

\* SearchService._apply_filters on the rows `ids` of store d
_apply_filters(d, ids, req) ==
  { id \in ids :
      /\ TruthyStr(req.primary_tag) => d[id].primary_tag = req.primary_tag
      /\ TruthyStr(req.source) => d[id].source = Val(req.source)
      /\ req.start_date # None => d[id].created_at >= Val(req.start_date)
      /\ req.end_date # None => d[id].created_at <= Val(req.end_date)
      /\ d[id].processing_status = "completed" }

\* SearchService._apply_text_search
_apply_text_search(d, ids, search_text) ==
  { id \in ids :
      \/ ILike(d[id].title, search_text)
      \/ ILike(d[id].summary, search_text)
      \/ ILike(d[id].original_text, search_text)
      \/ ILike(d[id].transcription, search_text) }

\* query.order_by(Note.created_at.desc())
RECURSIVE OrderByCreatedDesc(_, _)
OrderByCreatedDesc(d, ids) ==
  IF ids = {} THEN <<>>
  ELSE LET newest == CHOOSE x \in ids :
                       \A y \in ids : d[y].created_at <= d[x].created_at
       IN <<newest>> \o OrderByCreatedDesc(d, ids \ {newest})

\* a slice that starts one row late
Slice_skip_one(lst, offset, limit) ==
  IF offset + 1 >= Len(lst) THEN <<>>
  ELSE SubSeq(lst, offset + 2, Min(Len(lst), offset + 1 + limit))

\* lst[offset:offset + limit] and query.offset(offset).limit(limit)
Slice(lst, offset, limit) ==
  IF offset >= Len(lst) THEN <<>>
  ELSE SubSeq(lst, offset + 1, Min(Len(lst), offset + limit))

\* filter_metadata = {"user_id": user_id}, plus primary_tag when the request
\* has one
FilterMetadata(user_id, req) ==
  [ user_id |-> user_id,
    primary_tag |->
      IF TruthyStr(req.primary_tag) THEN req.primary_tag ELSE None ]

\* a re-hydration that keeps every id the index returned
Hydrate_all(d, note_ids) == note_ids

\* db.query(Note).filter(Note.id.in_(note_ids)).all(), then
\* [note_dict[nid] for nid in note_ids if nid in note_dict]
Hydrate(d, note_ids) ==
  LET InStore(nid) == nid \in DOMAIN d
  IN SelectSeq(note_ids, InStore)

\* a page of the hydrated notes re-sorted by creation time
SemanticPage_by_date(d, note_ids, req) ==
  IF note_ids = <<>> THEN <<>>
  ELSE Slice(OrderByCreatedDesc(d, {nid \in DOMAIN d :
                                      \E i \in 1..Len(note_ids) :
                                        note_ids[i] = nid}),
             (req.page - 1) * req.page_size, req.page_size)

\* "if not note_ids: return []", else the page of the hydrated list
SemanticPage(d, note_ids, req) ==
  IF note_ids = <<>> THEN <<>>
  ELSE Slice(Hydrate(d, note_ids), (req.page - 1) * req.page_size,
             req.page_size)

\* _semantic_search with the exceptions of the embedding model and of the
\* collection leaving it
_semantic_search_reraise(d, idx, user_id, query_text, req, env) ==
  IF env # "ok"
  THEN { [raised |-> TRUE, notes |-> <<>>, note_ids |-> <<>>] }
  ELSE { [raised |-> FALSE, notes |-> SemanticPage(d, note_ids, req),
          note_ids |-> note_ids] :
         note_ids \in search_similar_notes(idx, query_text, req.page_size * 2,
                                           FilterMetadata(user_id, req), env) }

\* SearchService._semantic_search: the possible result lists, each with the
\* list note_ids that search_similar_notes returned; its own
\* "except Exception" returns [] too
_semantic_search(d, idx, user_id, query_text, req, env) ==
  { [raised |-> FALSE, notes |-> SemanticPage(d, note_ids, req),
     note_ids |-> note_ids] :
    note_ids \in search_similar_notes(idx, query_text, req.page_size * 2,
                                      FilterMetadata(user_id, req), env) }

\* a semantic branch taken on the flag alone
SemanticBranch_flag_only(req) == req.use_semantic_search

\* "if search_request.query and search_request.use_semantic_search"
SemanticBranch(req) == TruthyText(req.query) /\ req.use_semantic_search

\* search_notes with the total counted after the text search
search_notes_count_matched(d, idx, req, user_id, env) ==
  LET base == { id \in DOMAIN d : d[id].user_id = user_id }
      filtered == _apply_filters(d, base, req)
      matched ==
        IF TruthyText(req.query) /\ ~req.use_semantic_search
        THEN _apply_text_search(d, filtered, Val(req.query))
        ELSE filtered
      total_count == Cardinality(matched)
      offset == (req.page - 1) * req.page_size
      notes == Slice(OrderByCreatedDesc(d, matched), offset, req.page_size)
  IN IF offset < 0 \/ req.page_size < 0
     THEN { [raised |-> TRUE, notes |-> <<>>, total_count |-> total_count,
            index_call |-> None] }
     ELSE
     IF SemanticBranch(req)
     THEN { [raised |-> s.raised, notes |-> s.notes,
             total_count |-> total_count, index_call |-> Some(s.note_ids)] :
            s \in _semantic_search(d, idx, user_id, Val(req.query), req, env) }
     ELSE { [raised |-> FALSE, notes |-> notes,
             total_count |-> total_count, index_call |-> None] }

\* SearchService.search_notes: the possible (notes, total_count) results;
\* index_call is None when search_similar_notes was not called, and holds the
\* list it returned when it was
search_notes(d, idx, req, user_id, env) ==
  LET base == { id \in DOMAIN d : d[id].user_id = user_id }
      filtered == _apply_filters(d, base, req)
      total_count == Cardinality(filtered)
      matched ==
        IF TruthyText(req.query) /\ ~req.use_semantic_search
        THEN _apply_text_search(d, filtered, Val(req.query))
        ELSE filtered
      offset == (req.page - 1) * req.page_size
      notes == Slice(OrderByCreatedDesc(d, matched), offset, req.page_size)
  IN IF offset < 0 \/ req.page_size < 0
     THEN \* PostgreSQL rejects a negative OFFSET or LIMIT in query.all()
          { [raised |-> TRUE, notes |-> <<>>, total_count |-> total_count,
            index_call |-> None] }
     ELSE
     IF SemanticBranch(req)
     THEN { [raised |-> s.raised, notes |-> s.notes,
             total_count |-> total_count, index_call |-> Some(s.note_ids)] :
            s \in _semantic_search(d, idx, user_id, Val(req.query), req, env) }
     ELSE { [raised |-> FALSE, notes |-> notes,
             total_count |-> total_count, index_call |-> None] }

\* a SearchRequest whose page is declared ge=0
SearchRequestValid_ge0(req) ==
  /\ req.page >= 0
  /\ req.page_size >= PageSizeMin
  /\ req.page_size <= PageSizeMax

\* SearchRequest: page >= 1, 1 <= page_size <= 100
SearchRequestValid(req) ==
  /\ req.page >= PageMin
  /\ req.page_size >= PageSizeMin
  /\ req.page_size <= PageSizeMax

\* POST /query/search: 422 from request validation, 500 when the service
\* raises, else 200 with the notes and the total
api_search_notes(d, idx, req, user_id, env) ==
  IF ~SearchRequestValid(req)
  THEN { [status |-> 422, notes |-> <<>>, total |-> 0,
          index_call |-> None] }
  ELSE { IF r.raised
         THEN [status |-> 500, notes |-> <<>>, total |-> 0,
               index_call |-> r.index_call]
         ELSE [status |-> 200, notes |-> r.notes, total |-> r.total_count,
               index_call |-> r.index_call] :
         r \in search_notes(d, idx, req, user_id, env) }

(* --------------------------- index writes ----------------------------- *)

\* What the embedding model and the collection can do during one write.
StoreEnvs == {"ok", "embedding_raises", "add_raises"}

\* What collection.add does with an id the collection already holds.  It
\* depends on the ChromaDB release that is installed (none is pinned): the
\* call raises (IDAlreadyExistsError), or it logs a warning and adds
\* nothing.  No release replaces the entry.
AddExistingOutcomes == {"raises", "ignored"}

\* a store that writes under the id of the note created last (a "current
\* note" shared by the requests) instead of the id it was given
store_note_embedding_shared(idx, note_id, text, metadata, env, existing) ==
  IF env # "ok"
  THEN [raised |-> TRUE, index |-> idx]
  ELSE IF (nextId - 1) \notin DOMAIN idx
  THEN [raised |-> FALSE,
        index |-> With(idx, nextId - 1,
                       [document |-> text, metadata |-> metadata])]
  ELSE [raised |-> existing = "raises", index |-> idx]

\* EmbeddingService.store_note_embedding: generate_embedding, then
\* collection.add; an exception of either is re-raised and nothing is added.
store_note_embedding(idx, note_id, text, metadata, env, existing) ==
  IF env # "ok"
  THEN [raised |-> TRUE, index |-> idx]
  ELSE IF note_id \notin DOMAIN idx
  THEN [raised |-> FALSE,
        index |-> With(idx, note_id, [document |-> text, metadata |-> metadata])]
  ELSE [raised |-> existing = "raises", index |-> idx]

\* What collection.delete can do during one call.
DeleteEnvs == {"ok", "delete_raises"}

\* delete_note_embedding with the exception of collection.delete leaving it
delete_note_embedding_reraise(idx, note_id, env) ==
  IF env = "ok"
  THEN [raised |-> FALSE, index |-> Without(idx, note_id)]
  ELSE [raised |-> TRUE, index |-> idx]

\* EmbeddingService.delete_note_embedding: returns False instead of raising
delete_note_embedding(idx, note_id, env) ==
  IF env = "ok"
  THEN [raised |-> FALSE, index |-> Without(idx, note_id)]
  ELSE [raised |-> FALSE, index |-> idx]

\* What db.commit() can do.
CommitEnvs == {"ok", "raises"}

\* What transcription_service.transcribe_audio can do: raise, or return text.
SttOutcomes ==
  { [kind |-> "raises", text |-> <<>>] }
  \cup { [kind |-> "ok", text |-> t] : t \in Texts }

\* 1 for an injected failure, 0 for none
Fault(env) == IF env \in {"ok", "text"} THEN 0 ELSE 1

(* ------------------------- creation pipelines ------------------------- *)

\* {"user_id": ..., "primary_tag": ..., "created_at": ...}
EmbeddingMetadata(user_id, c, created_at) ==
  [ user_id |-> user_id, primary_tag |-> c.primary_tag,
    created_at |-> created_at ]

\* The first commit of a handler: the row is inserted with status
\* "processing" and the request is suspended before its pipeline, holding
\* the Note object it added.
Begin(handler, user_id, input_type, source, original_text) ==
  /\ resp = None
  /\ nextId <= MaxNotes
  /\ db' = With(db, nextId,
                NewNote(user_id, input_type, source, original_text, nextId))
  /\ pc' = With(pc, nextId,
                [ handler |-> handler, user_id |-> user_id,
                  text |-> original_text, created_at |-> nextId,
                  note |-> NewNote(user_id, input_type, source,
                                   original_text, nextId) ])
  /\ trace' = With(trace, nextId,
                   [ handler |-> handler, llm |-> "none", classified |-> None,
                     emb |-> "none", commit |-> "none" ])
  /\ nextId' = nextId + 1
  /\ UNCHANGED <<index, deleted, faults, resp, deletions, call>>

\* an embedding of the summary of the classification
EmbeddedText_summary(text_result, classification) == classification.summary

\* text=text_result["text"] (text=transcription_result["text"] for audio):
\* the text handed to store_note_embedding
EmbeddedText(text_result, classification) == text_result.text

\* the row of note id in store d when the session flushes; a row that is
\* gone leaves the session with the Note object `note` it holds
RowOf(d, id, note) == IF id \in DOMAIN d THEN d[id] ELSE note

\* a commit that inserts the row again when it is gone
CommitUpdate_merge(d, id, row) == With(d, id, row)

\* db.commit() of a session that modified note id: the UPDATE of a row that
\* is gone fails the commit (StaleDataError) and nothing is written
CommitUpdate(d, id, row) ==
  IF id \in DOMAIN d THEN [d EXCEPT ![id] = row] ELSE d

\* The pipeline of a handler after its first commit, up to the end of the
\* request, run on store d and index idx for the request p of note id:
\* transcription (audio), classification, embedding and index write, final
\* commit.  The result holds the store and the index it leaves and the
\* trace of the note, which keeps the text that was handed to
\* classify_note.  `absorbs` tells whether the handler catches a pipeline
\* exception and commits status "failed" (notes.py) or leaves the request
\* without committing (telegram_webhook.py).
PipelineResult(d, idx, p, id, absorbs, stt, llm, emb, commit, existing) ==
  LET audio == stt.kind # "text"
      text == stt.text
      sttRaised == stt.kind = "raises"
      c == classify_note(text, llm)
      clsRaised == ~sttRaised /\ c.raised
      reachedEmb == ~sttRaised /\ ~clsRaised
      s == IF reachedEmb
           THEN store_note_embedding(
                  idx, id, EmbeddedText(stt, c.value),
                  EmbeddingMetadata(p.user_id, c.value, p.created_at),
                  emb, existing)
           ELSE [raised |-> FALSE, index |-> idx]
      raised == sttRaised \/ clsRaised \/ s.raised
      reachedCommit == absorbs \/ ~raised
      \* the columns the session has modified, applied to the current row
      Changes(row) ==
        LET r1 == IF audio /\ ~sttRaised
                  THEN [row EXCEPT !.transcription = Some(text)] ELSE row
            r2 == IF reachedEmb THEN Classified(r1, c.value) ELSE r1
        IN IF raised
           THEN Failed(r2, IF sttRaised THEN "transcription"
                           ELSE IF clsRaised THEN "classification"
                           ELSE "embedding")
           ELSE r2
  IN [ reachedEmb |-> reachedEmb,
       reachedCommit |-> reachedCommit,
       index |-> s.index,
       db |-> IF reachedCommit /\ commit = "ok"
              THEN CommitUpdate(d, id, Changes(RowOf(d, id, p.note)))
              ELSE d,
       trace |->
         [ handler |-> p.handler,
           llm |-> IF sttRaised THEN "none"
                   ELSE IF llm.kind = "ok" THEN "ok" ELSE "trouble",
           classified |-> IF sttRaised THEN None ELSE Some(text),
           emb |-> IF ~reachedEmb THEN "none"
                   ELSE IF s.raised THEN "raised" ELSE "stored",
           commit |-> IF ~reachedCommit THEN "none"
                      ELSE IF commit = "ok" /\ id \notin DOMAIN d THEN "stale"
                      ELSE commit ] ]

\* The pipeline of request id as a step of the program: it runs on the
\* store and the index as they are when the request resumes.
Pipeline(id, absorbs, stt, llm, emb, commit) ==
  \E existing \in AddExistingOutcomes :
    LET r == PipelineResult(db, index, pc[id], id, absorbs, stt, llm, emb,
                            commit, existing)
    IN /\ resp = None
       /\ faults + Fault(stt.kind) + Fault(emb) + Fault(commit) <= MaxFaults
       /\ ~r.reachedEmb => emb = "ok"
       /\ ~r.reachedCommit => commit = "ok"
       /\ faults' = faults + Fault(stt.kind) + Fault(emb) + Fault(commit)
       /\ index' = r.index
       /\ db' = r.db
       /\ pc' = Without(pc, id)
       /\ trace' = [trace EXCEPT ![id] = r.trace]
       /\ UNCHANGED <<nextId, deleted, resp, deletions, call>>

\* the text of a text note, as the handler holds it in text_result["text"]
TextInput(t) == [kind |-> "text", text |-> t]

\* NoteCreate.source of the notes the API creates
ApiSources == {"web"}

\* POST /notes/text (create_text_note), up to the first commit
CreateTextNoteBegin ==
  \E u \in Users, t \in Texts, src \in ApiSources :
    Begin("create_text_note", u, "text", src, Some(t))

\* POST /notes/text, from the first commit to the response
CreateTextNoteFinish ==
  \E id \in DOMAIN pc, llm \in LlmOutcomes, emb \in StoreEnvs,
     commit \in CommitEnvs :
    /\ pc[id].handler = "create_text_note"
    /\ Pipeline(id, TRUE, TextInput(Val(pc[id].text)), llm, emb, commit)

\* POST /notes/audio (create_audio_note), up to the first commit
CreateAudioNoteBegin ==
  \E u \in Users, src \in ApiSources :
    Begin("create_audio_note", u, "audio", src, None)

\* POST /notes/audio, from the first commit to the response
CreateAudioNoteFinish ==
  \E id \in DOMAIN pc, stt \in SttOutcomes, llm \in LlmOutcomes,
     emb \in StoreEnvs, commit \in CommitEnvs :
    /\ pc[id].handler = "create_audio_note"
    /\ Pipeline(id, TRUE, stt, llm, emb, commit)

\* _handle_text_message, up to the first commit
HandleTextMessageBegin ==
  \E u \in TelegramUsers, t \in Texts :
    Begin("_handle_text_message", u, "text", "telegram", Some(t))

\* _handle_text_message, from the first commit to its return
HandleTextMessageFinish ==
  \E id \in DOMAIN pc, llm \in LlmOutcomes, emb \in StoreEnvs,
     commit \in CommitEnvs :
    /\ pc[id].handler = "_handle_text_message"
    /\ Pipeline(id, FALSE, TextInput(Val(pc[id].text)), llm, emb, commit)

\* _handle_voice_message, up to the first commit
HandleVoiceMessageBegin ==
  \E u \in TelegramUsers :
    Begin("_handle_voice_message", u, "audio", "telegram", None)

\* _handle_voice_message, from the first commit to its return
HandleVoiceMessageFinish ==
  \E id \in DOMAIN pc, stt \in SttOutcomes, llm \in LlmOutcomes,
     emb \in StoreEnvs, commit \in CommitEnvs :
    /\ pc[id].handler = "_handle_voice_message"
    /\ Pipeline(id, FALSE, stt, llm, emb, commit)

(* -------------------------- update and delete ------------------------- *)

\* NoteUpdate bodies: a field is None when the request leaves it out
NoteUpdates ==
  { [ title |-> None, summary |-> None, primary_tag |-> Some("Travel"),
      secondary_tags |-> None ] }

\* NoteUpdate bodies with every choice of the fields that are left out
AnyNoteUpdates ==
  { [ title |-> t, summary |-> m, primary_tag |-> p, secondary_tags |-> g ] :
      t \in {None, Some(LlmTitle)}, m \in {None, Some(LlmSummary)},
      p \in {None, Some("Travel")}, g \in {None, Some(<<"plan">>)} }

\* the fields a NoteUpdate can carry
UpdatableFields == {"title", "summary", "primary_tag", "secondary_tags"}

\* an update that assigns the four fields whether the body has them or not
UpdateFields_overwrite(note, note_update) ==
  [ f \in DOMAIN note |->
      IF f \in UpdatableFields THEN note_update[f] ELSE note[f] ]

\* "if note_update.title is not None: note.title = note_update.title", and
\* the same for summary, primary_tag and secondary_tags
UpdateFields(note, note_update) ==
  [ note EXCEPT
      !.title = IF note_update.title # None THEN note_update.title ELSE @,
      !.summary = IF note_update.summary # None
                  THEN note_update.summary ELSE @,
      !.primary_tag = IF note_update.primary_tag # None
                      THEN note_update.primary_tag ELSE @,
      !.secondary_tags = IF note_update.secondary_tags # None
                         THEN note_update.secondary_tags ELSE @ ]

\* an update_note that sends the note back to processing
UpdateNote_reprocess ==
  \E id \in DOMAIN db, u \in Users, note_update \in NoteUpdates :
    /\ resp = None
    /\ db[id].user_id = u
    /\ db' = [db EXCEPT ![id] =
         [ @ EXCEPT
             !.primary_tag = IF note_update.primary_tag # None
                             THEN note_update.primary_tag ELSE @,
             !.processing_status = "processing" ]]
    /\ UNCHANGED <<index, nextId, pc, trace, deleted, faults, resp, deletions,
                   call>>

\* PUT /notes/{note_id} by user u with body note_update, on a note that the
\* query for (note_id, user_id) finds.  The column updated_at (onupdate) is
\* not among the columns of the model.
UpdateNoteRequest(id, u, note_update) ==
  /\ resp = None
  /\ db[id].user_id = u
  /\ db' = [db EXCEPT ![id] = UpdateFields(@, note_update)]
  /\ UNCHANGED <<index, nextId, pc, trace, deleted, faults, resp, deletions,
                 call>>

\* PUT /notes/{note_id} (update_note); a 404 changes nothing
UpdateNote ==
  \E id \in DOMAIN db, u \in Users, note_update \in NoteUpdates :
    UpdateNoteRequest(id, u, note_update)

\* DELETE /notes/{note_id} (delete_note): the index entry is removed first,
\* then the row; an exception (of the index removal, were it to raise, or of
\* the commit) is rolled back and leaves the row.
DeleteNote ==
  \E id \in DOMAIN db, u \in Users, env \in DeleteEnvs, commit \in CommitEnvs :
    LET r == delete_note_embedding(index, id, env)
        reachedCommit == ~r.raised
    IN /\ resp = None
       /\ db[id].user_id = u
       /\ ~reachedCommit => commit = "ok"
       /\ faults + Fault(env) + Fault(commit) <= MaxFaults
       /\ faults' = faults + Fault(env) + Fault(commit)
       /\ index' = r.index
       /\ deletions' = With(deletions, id,
                            [ indexed |-> id \in DOMAIN index,
                              index |-> IF env = "ok" THEN "removed"
                                        ELSE "failed",
                              commit |-> IF ~reachedCommit THEN "none"
                                         ELSE commit ])
       /\ IF reachedCommit /\ commit = "ok"
          THEN /\ db' = Without(db, id)
               /\ deleted' = deleted \cup {id}
               /\ trace' = IF id \in DOMAIN pc THEN trace
                           ELSE Without(trace, id)
          ELSE UNCHANGED <<db, deleted, trace>>
       /\ UNCHANGED <<nextId, pc, resp, call>>

(* ------------------------------- search ------------------------------- *)

\* SearchRequest() with every field at its default
DefaultRequest ==
  [ query |-> None, primary_tag |-> None, source |-> None,
    start_date |-> None, end_date |-> None, page |-> 1, page_size |-> 10,
    use_semantic_search |-> FALSE ]

\* the filters of the requests of the model: none, each of the four alone,
\* and the tag with the source
RequestFilters ==
  { [primary_tag |-> t, source |-> s, start_date |-> a, end_date |-> b] :
      t \in {None, Some("Travel")}, s \in {None, Some("telegram")},
      a \in {None, Some(2)}, b \in {None, Some(1)} }

NoFilter ==
  [primary_tag |-> None, source |-> None, start_date |-> None,
   end_date |-> None]

FewFilters ==
  { f \in RequestFilters :
      \/ Cardinality({k \in DOMAIN f : f[k] # None}) <= 1
      \/ f = [NoFilter EXCEPT !.primary_tag = Some("Travel"),
                              !.source = Some("telegram")] }

\* the query text and the semantic flag of the requests of the model
RequestQueries ==
  { <<None, FALSE>>, <<Some(<<>>), TRUE>>,
    <<Some(QueryTrip), FALSE>>, <<Some(QueryTrip), TRUE>> }

Request(q, f, p, s) ==
  [ query |-> q[1], primary_tag |-> f.primary_tag, source |-> f.source,
    start_date |-> f.start_date, end_date |-> f.end_date,
    page |-> p, page_size |-> s, use_semantic_search |-> q[2] ]

\* requests that pass the validation of SearchRequest: every filter of
\* FewFilters on the first page, and every page with and without the tag
ValidRequests ==
  { Request(q, f, 1, MaxPageSize) : q \in RequestQueries, f \in FewFilters }
  \cup
  { Request(q, f, p, s) :
      q \in RequestQueries,
      f \in {NoFilter, [NoFilter EXCEPT !.primary_tag = Some("Travel")]},
      p \in 1..MaxPage, s \in 1..MaxPageSize }

\* requests whose date range starts after it ends; they pass the validation
\* of SearchRequest, which has no validator over the two dates
MalformedRangeRequests ==
  { Request(q, [NoFilter EXCEPT !.start_date = Some(2), !.end_date = Some(1)],
            1, MaxPageSize) :
      q \in {<<None, FALSE>>, <<Some(QueryTrip), TRUE>>} }

\* requests with a page or a page size outside the declared ranges
InvalidRequests ==
  { [DefaultRequest EXCEPT !.page = p, !.page_size = s] :
      p \in {0, 1}, s \in {0, 1, PageSizeMax + 1} }
  \ { [DefaultRequest EXCEPT !.page = 1, !.page_size = 1] }

SearchRequests ==
  ValidRequests \cup MalformedRangeRequests \cup InvalidRequests

\* the embedding model and the collection are used by a request with a
\* query text and the semantic flag only
UsesIndex(req) ==
  SearchRequestValid(req) /\ TruthyText(req.query) /\ req.use_semantic_search

\* POST /query/search of user u with body req: the handler runs and builds
\* its response
SearchNotesRequest(u, req, env) ==
  /\ resp = None
  /\ env # "ok" => UsesIndex(req)
  /\ \E r \in api_search_notes(db, index, req, u, env) :
       resp' = Some([ user_id |-> u, request |-> req, env |-> env,
                      status |-> r.status, notes |-> r.notes,
                      total |-> r.total, index_call |-> r.index_call ])
  /\ UNCHANGED <<db, index, nextId, pc, trace, deleted, faults, deletions,
                 call>>

\* POST /query/search
SearchNotes ==
  \E u \in Users, req \in SearchRequests, env \in SearchEnvs :
    SearchNotesRequest(u, req, env)

\* the response is sent; the next request is served
SendResponse ==
  /\ resp # None
  /\ resp' = None
  /\ UNCHANGED <<db, index, nextId, pc, trace, deleted, faults, deletions,
                 call>>

(* ---------------------------- specification --------------------------- *)

Init ==
  /\ db = <<>>
  /\ index = <<>>
  /\ nextId = 1
  /\ pc = <<>>
  /\ trace = <<>>
  /\ deleted = {}
  /\ faults = 0
  /\ resp = None
  /\ deletions = <<>>
  /\ call = None

Next ==
  \/ CreateTextNoteBegin
  \/ CreateTextNoteFinish
  \/ CreateAudioNoteBegin
  \/ CreateAudioNoteFinish
  \/ HandleTextMessageBegin
  \/ HandleTextMessageFinish
  \/ HandleVoiceMessageBegin
  \/ HandleVoiceMessageFinish
  \/ UpdateNote
  \/ DeleteNote

Spec == Init /\ [][Next]_vars

\* run.py starts one uvicorn worker, and no handler yields to the event loop
\* between its first commit and its last: the requests are served one at a
\* time.
Idle == pc = <<>>

NextSerial ==
  \/ Idle /\ CreateTextNoteBegin
  \/ CreateTextNoteFinish
  \/ Idle /\ CreateAudioNoteBegin
  \/ CreateAudioNoteFinish
  \/ Idle /\ HandleTextMessageBegin
  \/ HandleTextMessageFinish
  \/ Idle /\ HandleVoiceMessageBegin
  \/ HandleVoiceMessageFinish
  \/ Idle /\ UpdateNote
  \/ Idle /\ DeleteNote
  \/ Idle /\ SearchNotes
  \/ SendResponse

SearchSpec == Init /\ [][NextSerial]_vars

(* ------------------ the pages of a semantic search -------------------- *)

\* Number of notes in the store whose pages are read.
MaxRanked == 3

\* the store after user u1 has created, one request after the other and
\* each with an LLM failure and nothing else failing, text notes with the
\* texts ts
StoreOfTexts(ts) ==
  [ i \in 1..Len(ts) |->
      Classified(NewNote("u1", "text", "web", Some(ts[i]), i),
                 Fallback(ts[i])) ]

\* ... and the index after these requests
IndexOfTexts(ts) ==
  [ i \in 1..Len(ts) |->
      [ document |-> ts[i],
        metadata |-> EmbeddingMetadata("u1", Fallback(ts[i]), i) ] ]

\* ... and the traces of these requests
TraceOfTexts(ts) ==
  [ i \in 1..Len(ts) |->
      [ handler |-> "create_text_note", llm |-> "trouble",
        classified |-> Some(ts[i]), emb |-> "stored", commit |-> "ok" ] ]

InitPages ==
  \E k \in 0..MaxRanked : \E ts \in [1..k -> Texts] :
    /\ db = StoreOfTexts(ts)
    /\ index = IndexOfTexts(ts)
    /\ nextId = k + 1
    /\ pc = <<>>
    /\ trace = TraceOfTexts(ts)
    /\ deleted = {}
    /\ faults = 0
    /\ resp = None
    /\ deletions = <<>>
    /\ call = None

\* semantic requests for the pages 1, 2, ... up to the one after the last
\* that can hold a note
PageRequests ==
  { Request(<<Some(QueryTrip), TRUE>>, NoFilter, p, s) :
      p \in 1..(MaxRanked + 1), s \in 1..MaxPageSize }

\* POST /query/search for one page of a semantic search
SearchPage ==
  \E req \in PageRequests : SearchNotesRequest("u1", req, "ok")

NextPages ==
  \/ SearchPage
  \/ SendResponse

PageSpec == InitPages /\ [][NextPages]_vars

(* ----------------- text notes under every update body ----------------- *)

\* PUT /notes/{note_id} (update_note) with any of AnyNoteUpdates
UpdateNoteAny ==
  \E id \in DOMAIN db, u \in Users, note_update \in AnyNoteUpdates :
    UpdateNoteRequest(id, u, note_update)

NextUpdate ==
  \/ CreateTextNoteBegin
  \/ CreateTextNoteFinish
  \/ UpdateNoteAny

UpdateSpec == Init /\ [][NextUpdate]_vars

(* ------------- text notes under every shape of LLM response ---------- *)

\* POST /notes/text, from the first commit to the response, the Gemini call
\* answering with any of LlmJsonOutcomes
CreateTextNoteFinishJson ==
  \E id \in DOMAIN pc, llm \in LlmJsonOutcomes, emb \in StoreEnvs,
     commit \in CommitEnvs :
    /\ pc[id].handler = "create_text_note"
    /\ Pipeline(id, TRUE, TextInput(Val(pc[id].text)), llm, emb, commit)

NextJson ==
  \/ CreateTextNoteBegin
  \/ CreateTextNoteFinishJson

JsonSpec == Init /\ [][NextJson]_vars

(* ------------------ the index service called on its own --------------- *)

\* note ids and primary tags of the entries written to the index
IndexIds == 1..MaxNotes

IndexTags == {"Work", "Travel"}

\* the service is between two calls (not inside update_note_embedding)
BetweenCalls == IF call = None THEN TRUE ELSE Val(call).step = "done"

\* what a call of the embedding service leaves in `call`: its arguments, the
\* entry `old` the index held for the id before the call, how far the call
\* is, what the embedding model and the collection did in its last step, and
\* whether it succeeded (returned its id or True)
CallRecord(op, note_id, text, metadata, old, step, env, ok) ==
  [ op |-> op, note_id |-> note_id, text |-> text, metadata |-> metadata,
    old |-> old, step |-> step, env |-> env, ok |-> ok ]

EntryOf(idx, note_id) ==
  IF note_id \in DOMAIN idx THEN Some(idx[note_id]) ELSE None

\* embedding_service.store_note_embedding(note_id, text, metadata)
StoreNoteEmbedding ==
  \E note_id \in IndexIds, text \in Texts, tag \in IndexTags,
     env \in StoreEnvs, existing \in AddExistingOutcomes :
    LET metadata == EmbeddingMetadata("u1", [primary_tag |-> tag], note_id)
        r == store_note_embedding(index, note_id, text, metadata, env,
                                  existing)
    IN /\ BetweenCalls
       /\ index' = r.index
       /\ call' = Some(CallRecord("store_note_embedding", note_id, text,
                                  metadata, EntryOf(index, note_id), "done",
                                  env, ~r.raised))
       /\ UNCHANGED <<db, nextId, pc, trace, deleted, faults, resp,
                      deletions>>

\* embedding_service.update_note_embedding, up to the end of
\* self.collection.delete(ids=[note_id]); its exception ends the call with
\* False
UpdateNoteEmbeddingDelete ==
  \E note_id \in IndexIds, text \in Texts, tag \in IndexTags,
     env \in DeleteEnvs :
    LET metadata == EmbeddingMetadata("u1", [primary_tag |-> tag], note_id)
    IN /\ BetweenCalls
       /\ index' = IF env = "ok" THEN Without(index, note_id) ELSE index
       /\ call' = Some(CallRecord("update_note_embedding", note_id, text,
                                  metadata, EntryOf(index, note_id),
                                  IF env = "ok" THEN "deleted" ELSE "done",
                                  env, FALSE))
       /\ UNCHANGED <<db, nextId, pc, trace, deleted, faults, resp,
                      deletions>>

\* update_note_embedding, from "await self.store_note_embedding(...)" to its
\* return: True, or False when the store raised
UpdateNoteEmbeddingStore ==
  \E env \in StoreEnvs, existing \in AddExistingOutcomes :
    /\ call # None
    /\ Val(call).op = "update_note_embedding"
    /\ Val(call).step = "deleted"
    /\ LET c == Val(call)
           r == store_note_embedding(index, c.note_id, c.text, c.metadata,
                                     env, existing)
       IN /\ index' = r.index
          /\ call' = Some([c EXCEPT !.step = "done", !.env = env,
                                      !.ok = ~r.raised])
    /\ UNCHANGED <<db, nextId, pc, trace, deleted, faults, resp, deletions>>

\* embedding_service.delete_note_embedding(note_id)
DeleteNoteEmbedding ==
  \E note_id \in IndexIds, env \in DeleteEnvs :
    LET r == delete_note_embedding(index, note_id, env)
    IN /\ BetweenCalls
       /\ index' = r.index
       /\ call' = Some(CallRecord("delete_note_embedding", note_id, <<>>,
                                  <<>>, EntryOf(index, note_id), "done",
                                  env, env = "ok"))
       /\ UNCHANGED <<db, nextId, pc, trace, deleted, faults, resp,
                      deletions>>

NextIndex ==
  \/ StoreNoteEmbedding
  \/ UpdateNoteEmbeddingDelete
  \/ UpdateNoteEmbeddingStore
  \/ DeleteNoteEmbedding

IndexSpec == Init /\ [][NextIndex]_vars

(* ---------------- the classification service called on its own -------- *)

\* texts handed to classify_note: the texts of the notes, and every text of
\* at most MaxTextLen characters over a small alphabet
MaxTextLen == 3

TextAlphabet == {"a", "B", " "}

ClassifyTexts ==
  Texts \cup {TextMeeting, TextGymTrip}
  \cup UNION { [1..n -> TextAlphabet] : n \in 0..MaxTextLen }

\* classification_service.classify_note(text) with the Gemini call doing llm;
\* `previous` keeps the outcome of the Gemini call and the result of the
\* call before this one when that call was given the same text
ClassifyNote ==
  \E text \in ClassifyTexts, llm \in LlmOutcomes :
    LET c == classify_note(text, llm)
    IN /\ call' = Some([ op |-> "classify_note", text |-> text,
                         llm |-> llm.kind, raised |-> c.raised,
                         value |-> c.value, step |-> "done",
                         previous |->
                           IF call = None THEN None
                           ELSE IF Val(call).text # text THEN None
                           ELSE Some([ text |-> Val(call).text,
                                       llm |-> Val(call).llm,
                                       value |-> Val(call).value ]) ])
       /\ UNCHANGED <<db, index, nextId, pc, trace, deleted, faults, resp,
                      deletions>>

NextClassify == ClassifyNote

ClassifySpec == Init /\ [][NextClassify]_vars

(* ------------------------------- claims ------------------------------- *)

\* the response that is being returned (when there is one)
Response == Val(resp)

Range(s) == {s[i] : i \in 1..Len(s)}

\* row id of the store belongs to owner u, is completed and passes the
\* primary_tag, source, start_date and end_date filters of request req
PassesFilters(id, u, req) ==
  /\ db[id].user_id = u
  /\ db[id].processing_status = "completed"
  /\ TruthyStr(req.primary_tag) => db[id].primary_tag = req.primary_tag
  /\ TruthyStr(req.source) => db[id].source = Val(req.source)
  /\ req.start_date # None => db[id].created_at >= Val(req.start_date)
  /\ req.end_date # None => db[id].created_at <= Val(req.end_date)

\* text q occurs, whatever the case of its letters, in the title, the
\* summary, the original text or the transcription of row id
TextMatches(id, q) ==
  \E col \in {"title", "summary", "original_text", "transcription"} :
    ILike(db[id][col], q)

\* the notes that match request req of owner u on the keyword path
Matching(u, req) ==
  { id \in DOMAIN db :
      /\ PassesFilters(id, u, req)
      /\ TruthyText(req.query) => TextMatches(id, Val(req.query)) }

\* position of note id in the creation-time-descending ordering of S
Position(id, S) ==
  1 + Cardinality({ y \in S : db[y].created_at > db[id].created_at })

\* C1: when the embedding step or the index query fails during a search with
\* use_semantic_search=true and a non-empty query text, the notes returned
\* are, as a set, the notes that the search with use_semantic_search=false
\* and the same query text, filters, page and page_size returns.
C1_DegradesToKeywordSearch ==
  (resp # None /\ Response.env # "ok") =>
    \E k \in search_notes(db, index,
                          [Response.request EXCEPT
                             !.use_semantic_search = FALSE],
                          Response.user_id, "ok") :
      Range(Response.notes) = Range(k.notes)

\* C2: a search with use_semantic_search=true during which generate_embedding
\* or the index query raises still returns a (notes, total_count) result:
\* the request is answered 200, never with an error.
C2_SearchSurvivesIndexTrouble ==
  (resp # None /\ Response.env # "ok") => Response.status = 200

C2_Witness ==
  /\ resp # None
  /\ Response.env = "query_raises"
  /\ Response.status = 200
  /\ Response.total > 0
  /\ \E id \in DOMAIN index : index[id].metadata.user_id = Response.user_id

\* C3: no search response holds the id of a note whose row delete_note has
\* removed, also when the index still holds an entry for that id.
C3_DeletedNeverReturned ==
  resp # None =>
    \A i \in 1..Len(Response.notes) : Response.notes[i] \notin deleted

C3_Witness ==
  /\ resp # None
  /\ Response.status = 200
  /\ Response.env = "ok"
  /\ UsesIndex(Response.request)
  /\ Response.request.page = 1
  /\ \E id \in deleted :
       /\ id \in DOMAIN index
       /\ \E l \in search_similar_notes(
                     index, Val(Response.request.query),
                     Response.request.page_size * 2,
                     FilterMetadata(Response.user_id, Response.request),
                     "ok") :
            id \in Range(l)

\* C4: every note that a search with use_semantic_search=true and a query
\* text returns exists in the relational store, belongs to the requesting
\* owner, has processing_status completed and passes the primary_tag, source,
\* start_date and end_date filters of the request, evaluated on its row.
C4_SemanticResultsPassFilters ==
  (resp # None /\ Response.status = 200 /\ UsesIndex(Response.request)) =>
    \A i \in 1..Len(Response.notes) :
      /\ Response.notes[i] \in DOMAIN db
      /\ PassesFilters(Response.notes[i], Response.user_id, Response.request)

\* C5: a note whose creation request has finished and whose embedding
\* generation or index write failed after its classification is persisted
\* with processing_status completed and has no index entry.
C5_EmbeddingFailureLeavesCompleted ==
  \A id \in DOMAIN trace :
    (id \notin DOMAIN pc /\ id \in DOMAIN db /\ trace[id].emb = "raised") =>
      /\ db[id].processing_status = "completed"
      /\ id \notin DOMAIN index

\* C6: once the request that created a note row has finished, the persisted
\* processing_status of the row is completed or failed, whatever step of the
\* pipeline failed.
C6_FinishedRequestLeavesTerminalStatus ==
  \A id \in DOMAIN db :
    id \notin DOMAIN pc =>
      db[id].processing_status \in {"completed", "failed"}

\* the step that ends request id of create_text_note after an LLM call that
\* was not initialised, raised, or returned no valid classification, with
\* the embedding stored and the final commit done
C7_Step ==
  \A id \in DOMAIN pc :
    ( /\ id \notin DOMAIN pc'
      /\ pc[id].handler = "create_text_note"
      /\ trace'[id].llm = "trouble"
      /\ trace'[id].emb # "raised"
      /\ trace'[id].commit = "ok" )
    => /\ id \in DOMAIN db'
       /\ db'[id].processing_status = "completed"
       /\ db'[id] = Classified(db[id],
                      _create_fallback_classification(Val(pc[id].text)))

\* C7: when the LLM is not initialised, raises or returns no valid
\* classification, classify_note raises nothing, and create_text_note (its
\* embedding step and final commit succeeding) persists the note with
\* processing_status completed and the metadata of the fallback
\* classification of its text.
C7_ClassificationTroubleFallsBack == [][C7_Step]_vars

C7_Witness ==
  \E id \in DOMAIN trace \ DOMAIN pc :
    /\ trace[id].handler = "create_text_note"
    /\ trace[id].llm = "trouble"
    /\ trace[id].emb = "stored"
    /\ trace[id].commit = "ok"
    /\ id \in DOMAIN db
    /\ db[id].processing_status = "completed"
    /\ db[id].original_text = Some(TextBuy)
    /\ db[id].title = Some(TextBuy)
    /\ db[id].primary_tag = Some("Shopping")

\* C8: a search on the keyword path with page p and page_size s returns
\* exactly the notes at positions (p-1)*s+1 .. p*s of the
\* creation-time-descending ordering of the matching notes, in that order.
C8_NonSemanticPagination ==
  (resp # None /\ Response.status = 200 /\ ~UsesIndex(Response.request)) =>
    LET req == Response.request
        M == Matching(Response.user_id, req)
        first == (req.page - 1) * req.page_size + 1
        last == req.page * req.page_size
    IN /\ Len(Response.notes) =
            Cardinality({ id \in M : Position(id, M) \in first..last })
       /\ \A i \in 1..Len(Response.notes) :
            /\ Response.notes[i] \in M
            /\ Position(Response.notes[i], M) = first + i - 1

C8_Witness ==
  /\ resp # None
  /\ Response.status = 200
  /\ ~Response.request.use_semantic_search
  /\ TruthyText(Response.request.query)
  /\ Response.request.page = 2
  /\ Response.request.page_size = 1
  /\ Cardinality(Matching(Response.user_id, Response.request)) = 2
  /\ Len(Response.notes) = 1
  /\ Position(Response.notes[1],
              Matching(Response.user_id, Response.request)) = 2

\* C9 (as the spec states it): a search request with page < 1 or
\* page_size < 1 is not rejected; it is answered with the result of the same
\* request with the value raised to 1.
C9_OutOfRangePageIsClamped ==
  (resp # None /\ (Response.request.page < 1
                   \/ Response.request.page_size < 1)) =>
    /\ Response.status = 200
    /\ \E k \in search_notes(
                  db, index,
                  [Response.request EXCEPT
                     !.page = IF @ < 1 THEN 1 ELSE @,
                     !.page_size = IF @ < 1 THEN 1 ELSE @],
                  Response.user_id, Response.env) :
         Response.notes = k.notes /\ Response.total = k.total_count

\* C9 (amended): a search request with page < 1 or page_size < 1 is rejected
\* by the validation of SearchRequest with status 422; nothing is clamped
\* and no notes are returned.
C9_OutOfRangePageIsRejected ==
  (resp # None /\ (Response.request.page < 1
                   \/ Response.request.page_size < 1)) =>
    /\ Response.status = 422
    /\ Response.notes = <<>>

C9_Witness ==
  /\ resp # None
  /\ Response.request.page < 1
  /\ Response.request.page_size >= 1
  /\ Response.status = 422
  /\ \E id \in DOMAIN db :
       PassesFilters(id, Response.user_id, Response.request)

\* C10: the total_count of a search equals the number of the owner's
\* completed notes that pass the primary_tag, source and date filters of the
\* request, on the semantic and on the keyword path, whatever the query
\* text, the page, the page size and the answer of the index.
C10_TotalCountIsFilteredUniverse ==
  (resp # None /\ Response.status = 200) =>
    Response.total =
      Cardinality({ id \in DOMAIN db :
                      PassesFilters(id, Response.user_id, Response.request) })

C10_Witness ==
  /\ resp # None
  /\ Response.status = 200
  /\ TruthyText(Response.request.query)
  /\ ~Response.request.use_semantic_search
  /\ Response.request.page = 1
  /\ Response.request.page_size = 2
  /\ Response.total = 2
  /\ Len(Response.notes) = 1

\* position of id in the list l (0 when it is not in it)
IndexIn(l, id) ==
  IF \E i \in 1..Len(l) : l[i] = id
  THEN CHOOSE i \in 1..Len(l) : l[i] = id
  ELSE 0

\* C11: on the semantic path every returned note is in the list the index
\* query returned, and a returned note a precedes a returned note b iff a
\* precedes b in that list, whatever their creation times.
C11_SemanticKeepsIndexRanking ==
  (resp # None /\ Response.status = 200 /\ Response.index_call # None) =>
    LET l == Val(Response.index_call)
        n == Response.notes
    IN /\ \A i \in 1..Len(n) : IndexIn(l, n[i]) > 0
       /\ \A i, j \in 1..Len(n) :
            i < j <=> IndexIn(l, n[i]) < IndexIn(l, n[j])

C11_Witness ==
  /\ resp # None
  /\ Response.status = 200
  /\ Response.index_call # None
  /\ Len(Response.notes) = 2
  /\ db[Response.notes[1]].created_at < db[Response.notes[2]].created_at
  /\ IndexIn(Val(Response.index_call), Response.notes[1])
       < IndexIn(Val(Response.index_call), Response.notes[2])

\* C12: when no completed note of the owner passes the filters of the
\* request, the search returns no notes and total_count 0 and does not call
\* the embedding generator or the index, also with use_semantic_search=true
\* and a query text.
C12_EmptyUniverseSkipsIndex ==
  ( /\ resp # None
    /\ Response.status = 200
    /\ \A id \in DOMAIN db :
         ~PassesFilters(id, Response.user_id, Response.request) )
  => /\ Response.notes = <<>>
     /\ Response.total = 0
     /\ Response.index_call = None

\* C13: with use_semantic_search=true and a query text that is absent or
\* empty, the search does not call the index and returns what the same
\* request with use_semantic_search=false returns: the page of the filtered
\* universe in creation-time-descending order.
C13_SemanticWithoutQueryIsKeyword ==
  ( /\ resp # None
    /\ Response.status = 200
    /\ Response.request.use_semantic_search
    /\ ~TruthyText(Response.request.query) )
  => LET req == Response.request
         U == { id \in DOMAIN db : PassesFilters(id, Response.user_id, req) }
         first == (req.page - 1) * req.page_size + 1
     IN /\ Response.index_call = None
        /\ \E k \in search_notes(db, index,
                                 [req EXCEPT !.use_semantic_search = FALSE],
                                 Response.user_id, "ok") :
             Response.notes = k.notes /\ Response.total = k.total_count
        /\ Len(Response.notes) =
             Cardinality({ id \in U :
                             Position(id, U) \in
                               first..(req.page * req.page_size) })
        /\ \A i \in 1..Len(Response.notes) :
             /\ Response.notes[i] \in U
             /\ Position(Response.notes[i], U) = first + i - 1

C13_Witness ==
  /\ resp # None
  /\ Response.status = 200
  /\ Response.request.use_semantic_search
  /\ Response.request.query = Some(<<>>)
  /\ Response.index_call = None
  /\ Len(Response.notes) = 2
  /\ \E id \in DOMAIN index : index[id].metadata.user_id = Response.user_id

\* C14: when the index query cannot reach its backend, what
\* search_similar_notes hands back differs from the empty list, which is
\* returned only for a query that matched no entry.
C14_IndexUnavailableIsSignalled ==
  ( /\ resp # None
    /\ Response.index_call # None
    /\ Response.env = "query_raises" )
  => Val(Response.index_call) # <<>>

\* the call of a service method that `call` holds (when there is one)
Call == Val(call)

C16_ReplaceIsAtomic ==
  ( /\ call # None
    /\ Call.op = "update_note_embedding"
    /\ Call.old # None )
  => /\ Call.note_id \in DOMAIN index
     /\ index[Call.note_id] \in
          { Val(Call.old),
            [document |-> Call.text, metadata |-> Call.metadata] }

\* C17: a delete_note request whose removal of the index entry failed is not
\* aborted: (its commit not failing) the row is deleted and committed, and
\* an index entry the note had stays in the index.
C17_DeleteSurvivesIndexFailure ==
  \A id \in DOMAIN deletions :
    (deletions[id].index = "failed" /\ deletions[id].commit # "raises") =>
      /\ deletions[id].commit = "ok"
      /\ id \notin DOMAIN db
      /\ id \in deleted
      /\ deletions[id].indexed => id \in DOMAIN index

C17_Witness ==
  \E id \in DOMAIN deletions :
    /\ deletions[id].index = "failed"
    /\ deletions[id].commit = "ok"
    /\ deletions[id].indexed
    /\ id \in DOMAIN index
    /\ id \notin DOMAIN db

\* C18: in every state, the embedding_id of a note is set iff the note is
\* completed and its embedding was generated and stored; when set it is the
\* note's own id and the index holds an entry with that id.
C18_EmbeddingIdMatchesIndex ==
  \A id \in DOMAIN db :
    /\ (db[id].embedding_id # None) <=>
         ( /\ db[id].processing_status = "completed"
           /\ id \in DOMAIN trace
           /\ trace[id].emb = "stored" )
    /\ db[id].embedding_id # None =>
         (Val(db[id].embedding_id) = id /\ id \in DOMAIN index)

\* a step keeps the persisted status of every note it keeps, or moves it
\* from processing to completed or to failed
C19_Step ==
  \A id \in DOMAIN db \cap DOMAIN db' :
    \/ db'[id].processing_status = db[id].processing_status
    \/ /\ db[id].processing_status = "processing"
       /\ db'[id].processing_status \in {"completed", "failed"}

\* C19: the persisted processing_status of a note only moves forward: from
\* processing to completed or failed; a completed note never becomes failed,
\* processing or pending, and a failed note never changes its status.
C19_StatusMovesForward == [][C19_Step]_vars

C19_Witness ==
  \E id \in DOMAIN db :
    /\ db[id].processing_status = "completed"
    /\ db[id].original_text = Some(TextBuy)
    /\ db[id].primary_tag = Some("Travel")
    /\ \E other \in DOMAIN db : db[other].processing_status = "failed"

\* C20: for every text, classify_note under a failure of the LLM (not
\* initialised, raising, unparsable or invalid response) returns, without
\* raising, a classification with all nine fields, whose key_entities maps
\* each of the buckets people, places, dates and companies to the empty list.
C20_FallbackIsComplete ==
  ( /\ call # None
    /\ Call.op = "classify_note"
    /\ Call.llm # "ok" )
  => /\ ~Call.raised
     /\ DOMAIN Call.value = ClassificationFields
     /\ DOMAIN Call.value.key_entities =
          {"people", "places", "dates", "companies"}
     /\ \A b \in DOMAIN Call.value.key_entities :
          Call.value.key_entities[b] = <<>>
     /\ Call.value.title = Take(Call.text, 60)
     /\ Call.value.primary_tag # ""
     /\ Call.value.priority \in {"high", "medium", "low"}

C20_Witness ==
  /\ call # None
  /\ Call.op = "classify_note"
  /\ Call.llm = "unparsable"
  /\ Len(Call.text) = MaxTextLen
  /\ Call.value.primary_tag = "Other"
  /\ Call.value.key_entities = EmptyEntities

\* C21 (as the spec states it): with the LLM disabled, classify_note of "Team
\* meeting tomorrow at 10 AM to discuss Q4 goals" returns primary_tag Work
\* and exactly one actionable item, of priority medium.
C21_MeetingScenario ==
  ( /\ call # None
    /\ Call.op = "classify_note"
    /\ Call.llm = "not_initialised"
    /\ Call.text = TextMeeting )
  => /\ Call.value.primary_tag = "Work"
     /\ Len(Call.value.actionable_items) = 1
     /\ Call.value.actionable_items[1].priority = "medium"

\* the categories of the fallback table, in the order of the table
C26_TableOrder ==
  << "Work", "Personal", "Travel", "Ideas", "Projects", "Health", "Learning",
     "Finance", "Shopping" >>

\* category cat has a keyword that occurs in text, whatever the case of the
\* letters of text
C26_Matches(cat, text) ==
  \E n \in 1..Len(category_keywords) :
    /\ category_keywords[n].cat = cat
    /\ \E k \in 1..Len(category_keywords[n].keywords) :
         LET kw == category_keywords[n].keywords[k]
         IN \E i \in 0..(Len(text) - Len(kw)) :
              \A j \in 1..Len(kw) : LowerChar(text[i + j]) = kw[j]

\* C26: the fallback classification of a text has as primary_tag the first
\* category, in the order Work, Personal, Travel, Ideas, Projects, Health,
\* Learning, Finance, Shopping, with a keyword occurring in the text as a
\* case-insensitive substring, and Other when there is none; two fallback
\* calls with the same text return equal classifications.
C26_FallbackFirstMatchWins ==
  ( /\ call # None
    /\ Call.op = "classify_note"
    /\ Call.llm # "ok" )
  => /\ \A i \in 1..Len(C26_TableOrder) :
          Call.value.primary_tag = C26_TableOrder[i] <=>
            /\ C26_Matches(C26_TableOrder[i], Call.text)
            /\ \A m \in 1..(i - 1) : ~C26_Matches(C26_TableOrder[m], Call.text)
     /\ Call.value.primary_tag = "Other" <=>
          \A i \in 1..Len(C26_TableOrder) :
            ~C26_Matches(C26_TableOrder[i], Call.text)
     /\ ( /\ Call.previous # None
          /\ Val(Call.previous).llm # "ok"
          /\ Val(Call.previous).text = Call.text )
        => Val(Call.previous).value = Call.value

C26_Witness ==
  /\ call # None
  /\ Call.op = "classify_note"
  /\ Call.llm = "unparsable"
  /\ Call.text = TextGymTrip
  /\ Call.value.primary_tag = "Travel"
  /\ Call.previous # None
  /\ Val(Call.previous).llm = "raises"
  /\ Val(Call.previous).text = TextGymTrip
  /\ Val(Call.previous).value = Call.value

\* C25: every note with processing_status completed has a key_entities that
\* holds the four buckets people, places, dates and companies, each a list,
\* whatever JSON the LLM returned.
C25_CompletedHasFourBuckets ==
  \A id \in DOMAIN db :
    db[id].processing_status = "completed" =>
      /\ db[id].key_entities # None
      /\ DOMAIN Val(db[id].key_entities) = EntityBuckets

\* what a step of update_note on note id with body note_update may change
C22_Frame(id, note_update) ==
  /\ index' = index
  /\ trace' = trace
  /\ pc' = pc
  /\ DOMAIN db' = DOMAIN db
  /\ \A o \in DOMAIN db \ {id} : db'[o] = db[o]
  /\ \A f \in DOMAIN db[id] :
       db'[id][f] =
         IF f \in {"title", "summary", "primary_tag", "secondary_tags"}
            /\ note_update[f] # None
         THEN note_update[f]
         ELSE db[id][f]

C22_Step ==
  \A id \in DOMAIN db, u \in Users, note_update \in AnyNoteUpdates :
    UpdateNoteRequest(id, u, note_update) => C22_Frame(id, note_update)

\* C22: update_note sets the fields among title, summary, primary_tag and
\* secondary_tags that its body has and nothing else: no embedding is
\* generated, the index and the entry of the note in it stay as they are,
\* and the owner, the text, the creation time, the processing_status and
\* every other column of the row, and every other row, stay as they are.
C22_UpdateChangesOnlySuppliedFields == [][C22_Step]_vars

C22_Witness ==
  \E id \in DOMAIN db :
    /\ db[id].processing_status = "completed"
    /\ db[id].original_text = Some(TextBuy)
    /\ db[id].title = Some(LlmTitle)
    /\ db[id].summary = Some(TextBuy)
    /\ db[id].primary_tag = Some("Travel")
    /\ id \in DOMAIN index
    /\ index[id].document = TextBuy
    /\ index[id].metadata.primary_tag = "Shopping"

\* C23 (as the spec states it): a search request whose start_date is later
\* than its end_date is answered with a caller-input error (a 4xx status),
\* not with a result list.
C23_MalformedRangeIsRejected ==
  ( /\ resp # None
    /\ Response.request.start_date # None
    /\ Response.request.end_date # None
    /\ Val(Response.request.start_date) > Val(Response.request.end_date) )
  => Response.status \in 400..499

\* C24: on every creation path, a pipeline that invoked the embedding step
\* had its classification returned before (by the LLM or by the fallback),
\* and the text of the index entry it wrote is the very text that was handed
\* to classify_note.
C24_EmbeddingFollowsClassification ==
  \A id \in DOMAIN trace :
    /\ trace[id].emb # "none" =>
         /\ trace[id].llm \in {"ok", "trouble"}
         /\ trace[id].classified # None
    /\ (trace[id].emb = "stored" /\ id \in DOMAIN index) =>
         index[id].document = Val(trace[id].classified)

C24_Witness ==
  \E a, b \in DOMAIN trace :
    /\ trace[a].handler \in {"create_text_note", "_handle_text_message"}
    /\ trace[b].handler \in {"create_audio_note", "_handle_voice_message"}
    /\ trace[a].emb = "stored" /\ trace[b].emb = "stored"
    /\ trace[a].llm = "ok" /\ trace[b].llm = "trouble"
    /\ a \in DOMAIN index /\ b \in DOMAIN index
    /\ index[a].document = Val(trace[a].classified)
    /\ index[b].document = Val(trace[b].classified)

\* the handlers that answer a pipeline exception with status "failed"
C27_Absorbs(handler) == handler \in {"create_text_note", "create_audio_note"}

\* what the pipeline of request id, finishing in this step, leaves for its
\* note is what the same pipeline leaves when it runs on a store that holds
\* the row of its note only and on an empty index
C27_AsAlone(id) ==
  \E stt \in SttOutcomes \cup {TextInput(t) : t \in Texts},
     llm \in LlmOutcomes, emb \in StoreEnvs, commit \in CommitEnvs,
     existing \in AddExistingOutcomes :
    /\ (stt.kind = "text") = (pc[id].text # None)
    /\ stt.kind = "text" => stt.text = Val(pc[id].text)
    /\ (stt.kind = "raises") = (trace'[id].llm = "none")
    /\ (llm.kind = "ok") = (trace'[id].llm = "ok")
    /\ (emb = "ok") = (trace'[id].emb # "raised")
    /\ (commit = "ok") = (trace'[id].commit # "raises")
    /\ LET alone == PipelineResult([i \in {id} |-> pc[id].note], <<>>,
                                   pc[id], id, C27_Absorbs(pc[id].handler),
                                   stt, llm, emb, commit, existing)
       IN /\ trace'[id] = alone.trace
          /\ db'[id] = alone.db[id]
          /\ EntryOf(index', id) = EntryOf(alone.index, id)

\* the step in which the pipeline of a note ends, the row of the note being
\* as its first commit left it
C27_Step ==
  \A id \in DOMAIN pc :
    (id \notin DOMAIN pc' /\ id \in DOMAIN db /\ db[id] = pc[id].note) =>
      /\ C27_AsAlone(id)
      /\ \A o \in DOMAIN db \ {id} : o \in DOMAIN db' /\ db'[o] = db[o]
      /\ \A o \in DOMAIN pc \ {id} : o \in DOMAIN pc' /\ pc'[o] = pc[o]
      /\ \A o \in DOMAIN trace \ {id} : trace'[o] = trace[o]
      /\ \A o \in DOMAIN index \ {id} :
           o \in DOMAIN index' /\ index'[o] = index[o]
      /\ DOMAIN index' \subseteq DOMAIN index \cup {id}
      /\ id \in DOMAIN index' =>
           /\ index'[id].document = Val(trace'[id].classified)
           /\ index'[id].metadata.user_id = pc[id].user_id
           /\ index'[id].metadata.created_at = pc[id].created_at

\* C27: in every interleaving of the creation pipelines of distinct notes,
\* the pipeline of a note leaves for it the status, the metadata and the
\* index entry it leaves when it runs alone, changes no row, request or
\* index entry of another note, and writes an index entry only under the id
\* of its note, with the text and the owner of its note.
C27_PipelinesDoNotInterfere == [][C27_Step]_vars

C27_Witness ==
  \E a \in DOMAIN pc, b \in DOMAIN db \ DOMAIN pc :
    /\ a < b
    /\ db[b].processing_status = "completed"
    /\ trace[b].emb = "stored"
    /\ b \in DOMAIN index
    /\ index[b].metadata.user_id = db[b].user_id
    /\ db[b].user_id # pc[a].user_id
    /\ pc[a].text # None
    /\ index[b].document # Val(pc[a].text)

\* searches put to a state of the store and the index: every query of the
\* model, semantic or not, without filters, on the first page
ProbeRequests ==
  { Request(q, NoFilter, 1, MaxPageSize) : q \in RequestQueries }

\* the notes that some answer to a probe search of some user holds
Findable ==
  UNION { Range(r.notes) :
          r \in UNION { api_search_notes(db, index, req, u, "ok") :
                        u \in Users, req \in ProbeRequests } }

\* note id was deleted by delete_note while its creation request was
\* suspended after its first commit, and that request has finished since
\* (delete_note keeps the trace of a note whose request is in flight)
DeletedDuringPipeline(id) ==
  id \in deleted /\ id \in DOMAIN trace /\ id \notin DOMAIN pc

\* C29: a note deleted by delete_note while its creation pipeline was
\* suspended between its first and its final commit has, once the pipeline
\* has finished, no row in the store (the pipeline does not create it
\* again) and is returned by no search, also when the pipeline wrote an
\* index entry for it.
C29_DeletedDuringPipelineStaysGone ==
  \A id \in deleted :
    DeletedDuringPipeline(id) =>
      /\ id \notin DOMAIN db
      /\ id \notin Findable

C29_Witness ==
  \E id \in deleted :
    /\ DeletedDuringPipeline(id)
    /\ trace[id].emb = "stored"
    /\ trace[id].commit = "stale"
    /\ id \in DOMAIN index
    /\ id \notin DOMAIN db
    /\ \E l \in search_similar_notes(
                  index, QueryTrip, MaxPageSize * 2,
                  [user_id |-> index[id].metadata.user_id,
                   primary_tag |-> None], "ok") :
         id \in Range(l)

\* the answers to the probe searches of user u on store d and index idx
AnswersTo(u, d, idx) ==
  [ req \in ProbeRequests |-> api_search_notes(d, idx, req, u, "ok") ]

\* the notes whose row or index entry this step creates, changes or removes
C28_Touched ==
  { id \in DOMAIN db \cup DOMAIN db' \cup DOMAIN index \cup DOMAIN index' :
      \/ (id \in DOMAIN db) # (id \in DOMAIN db')
      \/ (id \in DOMAIN index) # (id \in DOMAIN index')
      \/ id \in DOMAIN db \cap DOMAIN db' /\ db'[id] # db[id]
      \/ id \in DOMAIN index \cap DOMAIN index' /\ index'[id] # index[id] }

\* the owner of a note that this step touches
C28_Owner(id) ==
  IF id \in DOMAIN db THEN db[id].user_id
  ELSE IF id \in DOMAIN db' THEN db'[id].user_id
  ELSE IF id \in DOMAIN index THEN index[id].metadata.user_id
  ELSE index'[id].metadata.user_id

C28_Step ==
  \A a \in Users :
    /\ \A req \in ProbeRequests :
         \A r \in AnswersTo(a, db', index')[req] :
           \A i \in 1..Len(r.notes) :
             /\ r.notes[i] \in DOMAIN db'
             /\ db'[r.notes[i]].user_id = a
    /\ (\A id \in C28_Touched : C28_Owner(id) # a) =>
         AnswersTo(a, db', index') = AnswersTo(a, db, index)

\* C28: after any sequence of create, update and delete requests of any
\* users, every note that a search of owner a returns, on the semantic or
\* on the keyword path, has user_id a in the store, and a request that
\* creates, updates or deletes a note of another owner leaves every answer
\* to a search of a as it was.
C28_OwnerIsolation == [][C28_Step]_vars

C28_Witness ==
  \E x, y \in DOMAIN db \cap DOMAIN index :
    /\ db[x].user_id = "u1"
    /\ db[y].user_id = "telegram_7"
    /\ db[x].processing_status = "completed"
    /\ db[y].processing_status = "completed"
    /\ db[x].original_text = db[y].original_text
    /\ \A u \in Users, req \in ProbeRequests :
         \A r \in AnswersTo(u, db, index)[req] :
           r.notes = IF u = "u1" THEN <<x>> ELSE <<y>>

\* the orderings of the set S of indexed notes by their distance to text q,
\* nearest first
C30_Rankings(S, q) ==
  { l \in Orderings(S) :
      \A i, j \in 1..Len(l) :
        i < j => Distance(q, index[l[i]].document)
                   <= Distance(q, index[l[j]].document) }

\* C30 (as the spec states it): the pages of a semantic search are the
\* consecutive slices of one list, the indexed notes of the owner that pass
\* the filters in vector-rank order: page p with page_size s holds the
\* notes at positions (p-1)*s+1 .. p*s of that list, so that the pages are
\* disjoint, hold at most s notes, and together list every such note once.
C30_SemanticPagesCoverRanking ==
  (resp # None /\ Response.status = 200 /\ UsesIndex(Response.request)) =>
    LET req == Response.request
        U == { id \in DOMAIN index \cap DOMAIN db :
                 /\ index[id].metadata.user_id = Response.user_id
                 /\ PassesFilters(id, Response.user_id, req) }
        first == (req.page - 1) * req.page_size + 1
        last == Min(Cardinality(U), req.page * req.page_size)
    IN \E l \in C30_Rankings(U, Val(req.query)) :
         Response.notes = [i \in 1..(last - first + 1) |-> l[first + i - 1]]

====
